---- MODULE Spec2Model ----
(***************************************************************************)
(* A model of finetune/lora.py: the LoRA fine-tuning script.               *)
(*                                                                         *)
(*   setup  -> the precision / quantization / device-count decision table  *)
(*   main   -> per-process initialisation, train, final checkpoint         *)
(*   train  -> the gradient-accumulation loop with linear warmup,          *)
(*             periodic validation (+ barrier) and periodic checkpoints    *)
(*   validate, get_batch, get_longest_seq_length, save_lora_checkpoint     *)
(*                                                                         *)
(* Conventions                                                             *)
(*   - Python strings are sequences of one-character strings, so that      *)
(*     startswith, `in`, slicing and format() are computed, not assumed.   *)
(*   - Python lists are sequences; Python indices are 0-based, so element  *)
(*     i of a list s is s[i + 1].                                          *)
(*   - Floats are exact rationals [num, den]; float rounding is not        *)
(*     modelled.                                                           *)
(*   - The module-level hyperparameters are the record hp, drawn in Init   *)
(*     from bounded sets, to which the script's own values are added as    *)
(*     one more run (ConfiguredHp).                                        *)
(*   - Each process of the run (fabric.launch) executes main; processes    *)
(*     interleave freely and meet only in collectives: the gradient        *)
(*     synchronisation of a backward pass outside no_backward_sync and     *)
(*     fabric.barrier().                                                   *)
(*   - Any collaborator call (model forward/backward, generate, tokenizer, *)
(*     torch.load, fabric.save ...) may raise: the exception propagates    *)
(*     and ends that process (pc = "raised"); nothing in the script        *)
(*     catches anything.                                                   *)
(***************************************************************************)
EXTENDS Integers, Sequences, FiniteSets, TLC

\* ------------------------------------------------------------------ bounds
MaxDevices == 2
MaxBatchSize == 3
MaxMicroBatch == 2
MaxIters == 4
MaxDistIters == 2
MaxWarmup == 2
MaxInterval == 2
MaxEvalIters == 1
MaxData == 3
MaxLen == 3

\* ----------------------------------------------------------------- strings
\* None: distinct from every string (its one element is not a character).
None == <<"None">>
\* None for an Optional[int] whose values are list indices (>= 0).
NoneIx == -1

StartsWith(s, prefix) ==
    /\ Len(s) >= Len(prefix)
    /\ SubSeq(s, 1, Len(prefix)) = prefix

\* Python: sub in s
Contains(sub, s) ==
    \E i \in 1..(Len(s) - Len(sub) + 1) : SubSeq(s, i, i + Len(sub) - 1) = sub

\* Python: s[n:]
SliceFrom(s, n) == SubSeq(s, n + 1, Len(s))

S_bnb == <<"b", "n", "b", ".">>
S_mixed == <<"m", "i", "x", "e", "d">>
S_true == <<"-", "t", "r", "u", "e">>
S_16 == <<"1", "6">>
S_bf16 == <<"b", "f", "1", "6">>
S_32 == <<"3", "2">>
S_64 == <<"6", "4">>

\* The Literal values of setup's quantize parameter.
QuantizeModes ==
    { S_bnb \o <<"n", "f", "4">>,
      S_bnb \o <<"n", "f", "4", "-", "d", "q">>,
      S_bnb \o <<"f", "p", "4">>,
      S_bnb \o <<"f", "p", "4", "-", "d", "q">>,
      S_bnb \o <<"i", "n", "t", "8", "-", "t", "r", "a", "i", "n", "i", "n", "g">> }

\* The keys of the dtype table of setup.
DtypeKeys == { S_16 \o S_true, S_bf16 \o S_true, S_32 \o S_true }

MixedPrecisions == { S_16 \o <<"-">> \o S_mixed, S_bf16 \o <<"-">> \o S_mixed }

\* Precision strings a caller can pass (Fabric's precision names), or None.
Precisions == DtypeKeys \cup MixedPrecisions \cup { S_64 \o S_true, None }

\* ------------------------------------------------------------------- setup
SetupErrors == {"TypeError", "ValueError", "KeyError", "NotImplementedError"}

\* plugins = None
NoPlugin == [kind |-> "None"]

\* BitsandbytesPrecision(quantize[4:], dtype)
BitsandbytesPrecision(mode, dtype) ==
    [kind |-> "BitsandbytesPrecision", mode |-> mode, dtype |-> dtype]

\* The block `if devices > 1: ... else: ...` without its quantize test.
SkipQuantizeCheck(devices, q) ==
    [error |-> "none", strategy |-> IF devices > 1 THEN "FSDPStrategy" ELSE "auto"]

\* The block `if devices > 1: ... else: ...`: the exception it raises
\* ("none" when it raises none) and the strategy it selects.
DevicesCheck(devices, q) ==
    IF devices > 1
    THEN IF q # None /\ Len(q) > 0      \* `if quantize:`
         THEN [error |-> "NotImplementedError", strategy |-> "unset"]
         ELSE [error |-> "none", strategy |-> "FSDPStrategy"]
    ELSE [error |-> "none", strategy |-> "auto"]

\* The block `if quantize is not None and quantize.startswith("bnb."):`:
\* the exception it raises ("none" when it raises none) and the plugin.
PluginCheck(p, q) ==
    IF q # None /\ StartsWith(q, S_bnb)
    THEN IF p = None
         THEN [error |-> "TypeError", plugins |-> NoPlugin]  \* "mixed" in None
         ELSE IF Contains(S_mixed, p)
         THEN [error |-> "ValueError", plugins |-> NoPlugin]
         ELSE IF p \notin DtypeKeys
         THEN [error |-> "KeyError", plugins |-> NoPlugin]   \* dtype table
         ELSE [error |-> "none",
               plugins |-> BitsandbytesPrecision(SliceFrom(q, 4), p)]
    ELSE [error |-> "none", plugins |-> NoPlugin]

\* setup with the two blocks in the other order.
SetupDevicesFirst(p, q, devices) ==
    LET s == DevicesCheck(devices, q)
        g == PluginCheck(p, q)
    IN  IF s.error # "none"
        THEN [error |-> s.error, plugins |-> NoPlugin, strategy |-> "unset"]
        ELSE IF g.error # "none"
        THEN [error |-> g.error, plugins |-> NoPlugin, strategy |-> "unset"]
        ELSE [error |-> "none", plugins |-> g.plugins, strategy |-> s.strategy]

\* setup up to fabric.launch: the plugin block runs first, then the devices
\* block; the first exception raised is the one that leaves setup.
SetupOutcome(p, q, devices) ==
    LET g == PluginCheck(p, q)
        s == DevicesCheck(devices, q)
    IN  IF g.error # "none"
        THEN [error |-> g.error, plugins |-> NoPlugin, strategy |-> "unset"]
        ELSE IF s.error # "none"
        THEN [error |-> s.error, plugins |-> g.plugins, strategy |-> "unset"]
        ELSE [error |-> "none", plugins |-> g.plugins, strategy |-> s.strategy]

\* -------------------------------------------------------------------- data
Max(S) == CHOOSE m \in S : \A n \in S : n <= m

Range(f) == { f[i] : i \in DOMAIN f }

\* An example: token ids and labels of equal length; the labels mask the
\* first (prompt) position with the sentinel -1.
MkExample(len, tag) ==
    [input_ids |-> [j \in 1..len |-> (j + tag) % 3],
     labels    |-> [j \in 1..len |-> IF j = 1 THEN -1 ELSE (j + tag) % 3]]

\* A dataset: one example per entry of a list of lengths.
MkData(lens) == [i \in 1..Len(lens) |-> MkExample(lens[i], i)]

LengthLists == UNION { [1..n -> 1..MaxLen] : n \in 0..MaxData }

DataSets == { MkData(ls) : ls \in LengthLists }

OneExample == MkData(<<2>>)

\* torch.randint(n, (micro_batch_size,)): every tensor of indices in 0..n-1.
Draws(n, mbs) == [1..mbs -> 0..(n - 1)]

\* get_longest_seq_length on a non-empty list (max() of an empty list raises).
get_longest_seq_length(data) ==
    LET lengths == [i \in 1..Len(data) |-> Len(data[i].input_ids)]
        longest == Max(Range(lengths))
        \* lengths.index(longest): the first position holding it, 0-based
        first == CHOOSE i \in 1..Len(lengths) :
                    /\ lengths[i] = longest
                    /\ \A j \in 1..(i - 1) : lengths[j] # longest
    IN  [longest_seq_length |-> longest, longest_seq_ix |-> first - 1]

\* pad_right of get_batch: x followed by max_len - len(x) copies of pad_id.
pad_right(x, pad_id, max_len) == x \o [j \in 1..(max_len - Len(x)) |-> pad_id]

\* `if longest_seq_ix is not None: ix[0] = longest_seq_ix` dropped.
KeepDraw(draw, longest_seq_ix) == draw

\* `if longest_seq_ix is not None: ix[0] = longest_seq_ix`
ForceLongest(draw, longest_seq_ix) ==
    IF longest_seq_ix # NoneIx
    THEN [draw EXCEPT ![1] = longest_seq_ix]
    ELSE draw

\* Padding to the longest example of the whole dataset instead of the draw.
DataMaxLen(data, input_ids) ==
    Max({ Len(data[i].input_ids) : i \in 1..Len(data) })

\* max_len = max(len(s) for s in input_ids)
BatchMaxLen(data, input_ids) ==
    Max({ Len(input_ids[j]) : j \in 1..Len(input_ids) })

\* get_batch, given the tensor torch.randint drew: the indices used and the
\* two stacked, right-padded tensors (a tensor is the sequence of its rows).
get_batch(data, draw, longest_seq_ix) ==
    LET ix        == ForceLongest(draw, longest_seq_ix)
        input_ids == [j \in 1..Len(ix) |-> data[ix[j] + 1].input_ids]
        labels    == [j \in 1..Len(ix) |-> data[ix[j] + 1].labels]
        max_len   == BatchMaxLen(data, input_ids)
    IN  [ix |-> ix,
         x  |-> [j \in 1..Len(ix) |-> pad_right(input_ids[j], 0, max_len)],
         y  |-> [j \in 1..Len(ix) |-> pad_right(labels[j], -1, max_len)]]

\* ------------------------------------------------------- hyperparameters
\* gradient_accumulation_iters = batch_size // micro_batch_size
gradient_accumulation_iters(h) == h.batch_size \div h.micro_batch_size

Rat(n, d) == [num |-> n, den |-> d]
RatEq(a, b) == a.num * b.den = b.num * a.den
RatLeq(a, b) == a.num * b.den <= b.num * a.den

\* learning_rate = 1e-4
learning_rate == Rat(1, 10000)

\* `if step_count < warmup_steps:` (the last warmup value is never set)
WarmupStrict(step_count, warmup_steps) == step_count < warmup_steps

\* `if step_count <= warmup_steps:`
InWarmup(step_count, warmup_steps) == step_count <= warmup_steps

\* The rate of the step about to be taken counted from 1.
WarmupLrNext(step_count, warmup_steps) ==
    Rat(learning_rate.num * (step_count + 1), learning_rate.den * warmup_steps)

\* lr = learning_rate * step_count / warmup_steps
WarmupLr(step_count, warmup_steps) ==
    Rat(learning_rate.num * step_count, learning_rate.den * warmup_steps)

\* is_accumulating computed from iter_num instead of iter_num + 1.
AccumulatingOffByOne(iter_num, gai) == iter_num % gai # 0

\* is_accumulating = (iter_num + 1) % gradient_accumulation_iters != 0
IsAccumulating(iter_num, gai) == (iter_num + 1) % gai # 0

\* longest_seq_ix if iter_num == 0 else None
TrainOverride(iter_num, ix) == IF iter_num = 0 THEN ix ELSE NoneIx

\* The loop left one iteration early.
ExhaustedEarly(iter_num, max_iters) == iter_num >= max_iters - 1

\* `for iter_num in range(max_iters)`: no index is left at iter_num.
RangeExhausted(iter_num, max_iters) == iter_num >= max_iters

\* The evaluation cadence test without `not is_accumulating`.
EvalDueAnyIteration(acc, step_count, eval_interval) ==
    step_count % eval_interval = 0

\* `if not is_accumulating and step_count % eval_interval == 0:`
EvalDue(acc, step_count, eval_interval) ==
    ~acc /\ step_count % eval_interval = 0

\* The checkpoint cadence test without `not is_accumulating`.
SaveDueAnyIteration(acc, step_count, save_interval) ==
    step_count % save_interval = 0

\* `if not is_accumulating and step_count % save_interval == 0:`
SaveDue(acc, step_count, save_interval) ==
    ~acc /\ step_count % save_interval = 0

\* ------------------------------------------------------------ checkpoints
DigitChars == <<"0", "1", "2", "3", "4", "5", "6", "7", "8", "9">>

RECURSIVE DecDigits(_)
DecDigits(n) ==
    IF n < 10 THEN <<DigitChars[n + 1]>>
    ELSE DecDigits(n \div 10) \o <<DigitChars[(n % 10) + 1]>>

\* f"{n:06d}": zero-padded to at least six digits
Format06d(n) ==
    LET d == DecDigits(n)
    IN  [j \in 1..(6 - Len(d)) |-> "0"] \o d

\* f"iter-{iter_num:06d}-ckpt.pth" (under out_dir)
IterCkptName(iter_num) ==
    <<"i", "t", "e", "r", "-">> \o Format06d(iter_num)
        \o <<"-", "c", "k", "p", "t", ".", "p", "t", "h">>

\* "lit_model_lora_finetuned.pth" (under out_dir)
FinalCkptName ==
    <<"l", "i", "t", "_", "m", "o", "d", "e", "l", "_", "l", "o", "r", "a", "_",
      "f", "i", "n", "e", "t", "u", "n", "e", "d", ".", "p", "t", "h">>

\* The parameter names of the model: frozen base weights and adapter weights.
BaseKeys == {"wte.weight", "attn.linear.weight", "lm_head.weight"}
LoraKeys == {"attn.lora_A", "attn.lora_B"}
StateDictKeys == BaseKeys \cup LoraKeys

\* lora_filter of lit_gpt.lora: "is an adapter parameter".
lora_filter(key) == key \in LoraKeys

\* fabric.save(path, state, filter): the coordinating rank writes the entries
\* of the state that pass the filter; on every other rank it writes nothing.
FabricSave(rank, path, keys, files) ==
    IF rank = 0
    THEN Append(files, [path |-> path, rank |-> rank, keys |-> keys])
    ELSE files

\* The checkpoint saved without the filter argument.
SaveUnfiltered(rank, file_path, files) ==
    FabricSave(rank, file_path, StateDictKeys, files)

\* The checkpoint written by each process itself (torch.save in place of
\* fabric.save).
SaveOnEveryRank(rank, file_path, files) ==
    Append(files, [path |-> file_path, rank |-> rank,
                   keys |-> { key \in StateDictKeys : lora_filter(key) }])

\* save_lora_checkpoint: fabric.save(file_path, {"model": model},
\*                                   filter={"model": lora_filter})
save_lora_checkpoint(rank, file_path, files) ==
    FabricSave(rank, file_path, { key \in StateDictKeys : lora_filter(key) }, files)

\* ------------------------------------------------------------------- state
VARIABLES
    hp,               \* the module-level hyperparameters (lines 32-56)
    precision,        \* setup's precision argument
    quantize,         \* setup's quantize argument
    train_data,       \* torch.load(data_dir / "train.pt")
    val_data,         \* torch.load(data_dir / "val.pt")
    status,           \* "init", "launched", or the exception that left setup
    plugins,          \* setup's precision plugin
    strategy,         \* setup's strategy
    pc,               \* per process: where it is in main / train / validate
    exc,              \* per process: the exception that ended it, or "none"
    training,         \* per process: model.training
    lr,               \* per process: param_group["lr"] of the optimizer
    max_seq_length,   \* per process: model.max_seq_length
    longest_seq_ix,   \* per process: train's longest_seq_ix
    iter_num,         \* per process: the index the loop is at
    step_count,       \* per process: train's step_count
    is_accumulating,  \* per process: train's is_accumulating
    batch,            \* per process: the last get_batch call and its result
    k,                \* per process: validate's loop index
    ret,              \* per process: which call of validate is running
    arrived,          \* per process: fabric.barrier() calls entered
    syncs,            \* per process: synchronised backward passes entered
    opt_steps,        \* per process: optimizer.step() calls made
    save_calls,       \* per process: save_lora_checkpoint calls made
    files,            \* the checkpoint writes, in order
    evals,            \* per process: the calls of validate made by the loop
    grad_accum,       \* per process: the micro-batch gradients accumulated
                      \*   in the parameters' .grad since the last zero_grad
    losses,           \* per process: validate's tensor `losses`, filled so far
    val_loss,         \* per process: what the last call of validate returned
    prev_loss         \* per process: what the call before it returned, kept
                      \*   by a caller that calls validate twice

cfgVars == <<hp, precision, quantize, train_data, val_data>>
setupVars == <<status, plugins, strategy>>
valVars == <<k, ret, evals>>
loopVars == <<iter_num, step_count, is_accumulating, opt_steps, grad_accum>>
collVars == <<arrived, syncs>>
saveVars == <<save_calls, files>>
lossVars == <<losses, val_loss, prev_loss>>
vars == <<cfgVars, setupVars, pc, exc, training, lr, max_seq_length,
          longest_seq_ix, batch, valVars, loopVars, collVars, saveVars,
          lossVars>>

Ranks == 0..(hp.devices - 1)

NoLr == Rat(-1, 1)

NoBatch ==
    [src |-> "none", iter |-> -1, override |-> NoneIx,
     ix |-> <<>>, x |-> <<>>, y |-> <<>>]

\* The result of get_batch together with the call that produced it.
Drawn(src, it, data, draw, override) ==
    LET b == get_batch(data, draw, override)
    IN  [src |-> src, iter |-> it, override |-> override,
         ix |-> b.ix, x |-> b.x, y |-> b.y]

\* ------------------------------------------------------- failing draws
\* torch.randint(0, (micro_batch_size,)) raises RuntimeError ("random_
\* expects 'from' to be less than 'to'"); max([]) raises ValueError. A
\* collaborator that fails raises some other exception.
RandintError == "RuntimeError: random_"
MaxError == "ValueError: max()"
CollaboratorError == "Exception"

\* ------------------------------------------------------------ the loss
\* The LoRA layers carry dropout (lora_dropout = 0.05): a forward pass of a
\* module in training mode applies a random mask, one in evaluation mode
\* applies none.
DropoutMasks == 0..1
Masks(train_mode) == IF train_mode THEN DropoutMasks ELSE {0}

\* logits = model(input_ids) and chunked_cross_entropy(logits, targets): a
\* value determined by the parameters (they change only in optimizer.step(),
\* so the number of steps applied stands for them), by the batch and by the
\* dropout mask. Nothing is assumed about which inputs give equal values.
ForwardLoss(b, params, mask) ==
    [x |-> b.x, y |-> b.y, params |-> params, mask |-> mask]

\* losses.mean(): determined by the values in the tensor and by how often
\* each occurs, not by their order.
Mean(ls) ==
    [n |-> Len(ls),
     terms |-> [t \in Range(ls) |->
                  Cardinality({i \in 1..Len(ls) : ls[i] = t})]]

NoLoss == [n |-> -1, terms |-> <<>>]

\* validate without its model.eval(): the training flag stays as it was.
SkipModelEval(t) == t

\* model.eval(): the training flag of the module after the call.

ModelEval(t) == FALSE

\* fabric.no_backward_sync(model, enabled=is_accumulating): whether the
\* backward pass inside the context skips the gradient synchronisation.
NeverSuppressed(acc) == FALSE

NoBackwardSync(acc) == acc

\* -------------------------------------------------------------------- Init
BaseHp ==
    [devices |-> 1, batch_size |-> 1, micro_batch_size |-> 1, max_iters |-> 1,
     warmup_steps |-> 1, eval_interval |-> 1, save_interval |-> 1,
     eval_iters |-> 1]

\* Every precision, quantization mode and device count, on a minimal run.
SetupInputs ==
    /\ \E d \in 1..MaxDevices : hp = [BaseHp EXCEPT !.devices = d]
    /\ precision \in Precisions
    /\ quantize \in QuantizeModes \cup {None}
    /\ train_data = OneExample
    /\ val_data = OneExample

\* One process; every accumulation width, run length, warmup length and
\* cadence within the bounds.
LoopInputs ==
    /\ \E bs \in 1..MaxBatchSize, mbs \in 1..MaxMicroBatch,
          mi \in 0..MaxIters, w \in 1..MaxWarmup,
          ei \in 1..MaxInterval, si \in 1..MaxInterval, ev \in 0..MaxEvalIters :
            /\ bs \div mbs > 0                 \* the assert of line 44
            /\ hp = [devices |-> 1, batch_size |-> bs, micro_batch_size |-> mbs,
                     max_iters |-> mi, warmup_steps |-> w, eval_interval |-> ei,
                     save_interval |-> si, eval_iters |-> ev]
    /\ precision = None
    /\ quantize = None
    /\ train_data = OneExample
    /\ val_data = OneExample

\* Several processes.
DistInputs ==
    /\ \E d \in 2..MaxDevices, bs \in 1..2, mi \in 0..MaxDistIters,
          ei \in 1..2, si \in 1..2 :
            hp = [devices |-> d, batch_size |-> bs, micro_batch_size |-> 1,
                  max_iters |-> mi, warmup_steps |-> 1, eval_interval |-> ei,
                  save_interval |-> si, eval_iters |-> 1]
    /\ precision = None
    /\ quantize = None
    /\ train_data = OneExample
    /\ val_data = OneExample

\* One process; every dataset within the bounds (the empty one included) as
\* the training set or as the validation set.
DataInputs ==
    /\ \E mbs \in 1..MaxMicroBatch :
            hp = [BaseHp EXCEPT !.batch_size = mbs, !.micro_batch_size = mbs,
                                !.max_iters = 2]
    /\ precision = None
    /\ quantize = None
    /\ \/ train_data \in DataSets /\ val_data = OneExample
       \/ train_data = OneExample /\ val_data \in DataSets

\* The two scenarios of the specification: accumulation width 32 over 64
\* iterations, and the dataset of lengths [5, 5, 5, 9] with micro-batches of 3.
ScenarioInputs ==
    /\ precision = None
    /\ quantize = None
    /\ val_data = OneExample
    /\ \/ /\ hp = [BaseHp EXCEPT !.batch_size = 32, !.max_iters = 64,
                                 !.eval_iters = 0]
          /\ train_data = OneExample
       \/ /\ hp = [BaseHp EXCEPT !.batch_size = 3, !.micro_batch_size = 3]
          /\ train_data = MkData(<<5, 5, 5, 9>>)

\* The script as it stands: the module-level constants of lines 32-56, one
\* device.
ConfiguredHp ==
    [devices |-> 1, batch_size |-> 96, micro_batch_size |-> 3,
     max_iters |-> 12000, warmup_steps |-> 100, eval_interval |-> 30,
     save_interval |-> 100, eval_iters |-> 300]

ConfiguredInputs ==
    /\ hp = ConfiguredHp
    /\ precision = None
    /\ quantize = None
    /\ train_data = OneExample
    /\ val_data = OneExample

\* The state of a run before setup is called.
Unstarted ==
    /\ status = "init"
    /\ plugins = NoPlugin
    /\ strategy = "unset"
    /\ pc = [p \in Ranks |-> "unlaunched"]
    /\ exc = [p \in Ranks |-> "none"]
    /\ training = [p \in Ranks |-> TRUE]
    /\ lr = [p \in Ranks |-> NoLr]
    /\ max_seq_length = [p \in Ranks |-> 0]
    /\ longest_seq_ix = [p \in Ranks |-> NoneIx]
    /\ iter_num = [p \in Ranks |-> 0]
    /\ step_count = [p \in Ranks |-> 0]
    /\ is_accumulating = [p \in Ranks |-> FALSE]
    /\ batch = [p \in Ranks |-> NoBatch]
    /\ k = [p \in Ranks |-> 0]
    /\ ret = [p \in Ranks |-> "none"]
    /\ arrived = [p \in Ranks |-> 0]
    /\ syncs = [p \in Ranks |-> 0]
    /\ opt_steps = [p \in Ranks |-> 0]
    /\ save_calls = [p \in Ranks |-> 0]
    /\ files = <<>>
    /\ evals = [p \in Ranks |-> 0]
    /\ grad_accum = [p \in Ranks |-> 0]
    /\ losses = [p \in Ranks |-> <<>>]
    /\ val_loss = [p \in Ranks |-> NoLoss]
    /\ prev_loss = [p \in Ranks |-> NoLoss]

Init ==
    /\ \/ SetupInputs
       \/ LoopInputs
       \/ DistInputs
       \/ DataInputs
       \/ ScenarioInputs
       \/ ConfiguredInputs
    /\ Unstarted

\* ----------------------------------------------------------------- actions
\* setup: the decision table, then fabric.launch(main, ...) starts main in
\* every process; an exception leaves setup before the launch.
Setup ==
    /\ status = "init"
    /\ LET o == SetupOutcome(precision, quantize, hp.devices)
       IN  /\ status' = IF o.error = "none" THEN "launched" ELSE o.error
           /\ plugins' = o.plugins
           /\ strategy' = o.strategy
           /\ pc' = IF o.error = "none" THEN [p \in Ranks |-> "main"] ELSE pc
    /\ UNCHANGED <<cfgVars, exc, training, lr, max_seq_length, longest_seq_ix,
                   batch, valVars, loopVars, collVars, saveVars, lossVars>>

\* main up to the call of train: the data and the model are loaded (a new
\* module is in training mode) and the optimizer is built with
\* lr=learning_rate.
MainInit(p) ==
    /\ pc[p] = "main"
    /\ pc' = [pc EXCEPT ![p] = "train"]
    /\ training' = [training EXCEPT ![p] = TRUE]
    /\ lr' = [lr EXCEPT ![p] = learning_rate]
    /\ UNCHANGED <<cfgVars, setupVars, exc, max_seq_length, longest_seq_ix,
                   batch, valVars, loopVars, collVars, saveVars, lossVars>>

\* train up to the sanity-check call of validate. max() of an empty list
\* raises ValueError.
TrainInit(p) ==
    /\ pc[p] = "train"
    /\ IF Len(train_data) = 0
       THEN /\ pc' = [pc EXCEPT ![p] = "raised"]
            /\ exc' = [exc EXCEPT ![p] = MaxError]
            /\ UNCHANGED <<max_seq_length, longest_seq_ix, ret>>
       ELSE LET r == get_longest_seq_length(train_data)
            IN  /\ max_seq_length' =
                      [max_seq_length EXCEPT ![p] = r.longest_seq_length]
                /\ longest_seq_ix' =
                      [longest_seq_ix EXCEPT ![p] = r.longest_seq_ix]
                /\ ret' = [ret EXCEPT ![p] = "sanity"]
                /\ pc' = [pc EXCEPT ![p] = "val_enter"]
                /\ UNCHANGED exc
    /\ UNCHANGED <<cfgVars, setupVars, training, lr, batch, k, evals, loopVars,
                   collVars, saveVars, lossVars>>

\* validate: model.eval() and the empty loss tensor. evals counts the calls
\* made from the loop of train.
ValEnter(p) ==
    /\ pc[p] = "val_enter"
    /\ training' = [training EXCEPT ![p] = ModelEval(training[p])]
    /\ k' = [k EXCEPT ![p] = 0]
    /\ losses' = [losses EXCEPT ![p] = <<>>]
    /\ evals' = [evals EXCEPT ![p] = IF ret[p] = "periodic" THEN @ + 1 ELSE @]
    /\ pc' = [pc EXCEPT ![p] = "val_iter"]
    /\ UNCHANGED <<cfgVars, setupVars, exc, lr, max_seq_length, longest_seq_ix,
                   batch, ret, loopVars, collVars, saveVars, val_loss,
                   prev_loss>>

\* validate: one pass of `for k in range(eval_iters)`. torch.randint raises
\* RuntimeError when len(data) is 0.
ValIter(p) ==
    /\ pc[p] = "val_iter"
    /\ k[p] < hp.eval_iters
    /\ IF Len(val_data) = 0
       THEN /\ pc' = [pc EXCEPT ![p] = "raised"]
            /\ exc' = [exc EXCEPT ![p] = RandintError]
            /\ UNCHANGED <<batch, k, losses>>
       ELSE /\ \E draw \in Draws(Len(val_data), hp.micro_batch_size),
                  mask \in Masks(training[p]) :
                  LET b == Drawn("val", k[p], val_data, draw, NoneIx)
                  IN  /\ batch' = [batch EXCEPT ![p] = b]
                      /\ losses' = [losses EXCEPT ![p] =
                            Append(@, ForwardLoss(b, opt_steps[p], mask))]
            /\ k' = [k EXCEPT ![p] = k[p] + 1]
            /\ UNCHANGED <<pc, exc>>
    /\ UNCHANGED <<cfgVars, setupVars, training, lr, max_seq_length,
                   longest_seq_ix, ret, evals, loopVars, collVars, saveVars,
                   val_loss, prev_loss>>

\* validate after its loop: the mean, the generated sample, model.train()
\* and the return (the tensor `losses` is gone with the call). After the sanity check train goes on to the FLOPs
\* measurement; after a periodic validation it prints and enters
\* fabric.barrier().
ValFinish(p) ==
    /\ pc[p] = "val_iter"
    /\ k[p] >= hp.eval_iters
    /\ training' = [training EXCEPT ![p] = TRUE]
    /\ val_loss' = [val_loss EXCEPT ![p] = Mean(losses[p])]
    /\ losses' = [losses EXCEPT ![p] = <<>>]
    /\ IF ret[p] = "sanity"
       THEN /\ pc' = [pc EXCEPT ![p] = "flops"]
            /\ UNCHANGED arrived
       ELSE /\ pc' = [pc EXCEPT ![p] = "barrier"]
            /\ arrived' = [arrived EXCEPT ![p] = arrived[p] + 1]
    /\ UNCHANGED <<cfgVars, setupVars, exc, lr, max_seq_length, longest_seq_ix,
                   batch, valVars, loopVars, syncs, saveVars, prev_loss>>

\* train between the sanity check and the loop: the result of the sanity
\* check is dropped; the FLOPs estimate and measurement on the meta model,
\* then step_count = 0.
MeasureFlops(p) ==
    /\ pc[p] = "flops"
    /\ val_loss' = [val_loss EXCEPT ![p] = NoLoss]
    /\ step_count' = [step_count EXCEPT ![p] = 0]
    /\ iter_num' = [iter_num EXCEPT ![p] = 0]
    /\ pc' = [pc EXCEPT ![p] = "loop"]
    /\ UNCHANGED <<cfgVars, setupVars, exc, training, lr, max_seq_length,
                   longest_seq_ix, batch, valVars, is_accumulating, opt_steps,
                   grad_accum, collVars, saveVars, losses, prev_loss>>

\* One iteration up to the backward pass: the warmup learning rate, the
\* batch, is_accumulating, the forward pass and the loss; the process is then
\* in fabric.backward, which synchronises the gradients with the other
\* processes unless is_accumulating.
IterForward(p) ==
    /\ pc[p] = "loop"
    /\ ~RangeExhausted(iter_num[p], hp.max_iters)
    /\ lr' = [lr EXCEPT ![p] =
                IF InWarmup(step_count[p], hp.warmup_steps)
                THEN WarmupLr(step_count[p], hp.warmup_steps)
                ELSE lr[p]]
    /\ \E draw \in Draws(Len(train_data), hp.micro_batch_size) :
          batch' = [batch EXCEPT
                      ![p] = Drawn("train", iter_num[p], train_data, draw,
                                   TrainOverride(iter_num[p], longest_seq_ix[p]))]
    /\ LET acc == IsAccumulating(iter_num[p], gradient_accumulation_iters(hp))
       IN  /\ is_accumulating' = [is_accumulating EXCEPT ![p] = acc]
           /\ syncs' = [syncs EXCEPT ![p] =
                          IF NoBackwardSync(acc) THEN @ ELSE @ + 1]
    /\ pc' = [pc EXCEPT ![p] = "backward"]
    /\ UNCHANGED <<cfgVars, setupVars, exc, training, max_seq_length,
                   longest_seq_ix, valVars, iter_num, step_count, opt_steps,
                   grad_accum, arrived, saveVars, lossVars>>

\* Where the iteration goes after its optimizer step, or after the barrier
\* when at = "barrier": to validate, to the periodic checkpoint, or to the
\* next iteration.
AfterStep(p, at, acc, sc) ==
    IF at = "backward" /\ EvalDue(acc, sc, hp.eval_interval)
    THEN /\ pc' = [pc EXCEPT ![p] = "val_enter"]
         /\ ret' = [ret EXCEPT ![p] = "periodic"]
         /\ UNCHANGED iter_num
    ELSE IF SaveDue(acc, sc, hp.save_interval)
    THEN /\ pc' = [pc EXCEPT ![p] = "save"]
         /\ UNCHANGED <<ret, iter_num>>
    ELSE /\ pc' = [pc EXCEPT ![p] = "loop"]
         /\ iter_num' = [iter_num EXCEPT ![p] = iter_num[p] + 1]
         /\ UNCHANGED ret

\* The rest of the iteration: the backward pass completes (a synchronised one
\* only once every process has entered it), then optimizer.step(),
\* optimizer.zero_grad() and step_count += 1 unless is_accumulating (the
\* gradient of the micro-batch is otherwise left added to .grad), the
\* speed monitor and the log line, and the two cadence tests.
IterStep(p) ==
    /\ pc[p] = "backward"
    /\ is_accumulating[p] \/ \A q \in Ranks : syncs[q] >= syncs[p]
    /\ LET sc == IF is_accumulating[p] THEN step_count[p] ELSE step_count[p] + 1
       IN  /\ step_count' = [step_count EXCEPT ![p] = sc]
           /\ opt_steps' = [opt_steps EXCEPT ![p] =
                              IF is_accumulating[p] THEN @ ELSE @ + 1]
           /\ grad_accum' = [grad_accum EXCEPT ![p] =
                               IF is_accumulating[p] THEN @ + 1 ELSE 0]
           /\ AfterStep(p, "backward", is_accumulating[p], sc)
    /\ UNCHANGED <<cfgVars, setupVars, exc, training, lr, max_seq_length,
                   longest_seq_ix, batch, k, evals, is_accumulating, collVars,
                   saveVars, lossVars>>

\* The loop without the barrier call.
NoBarrier(p) == TRUE

\* fabric.barrier() returns once every process has entered it.
BarrierReleased(p) == \A q \in Ranks : arrived[q] >= arrived[p]

\* The return from fabric.barrier(), then the checkpoint cadence test.
\* val_loss has been printed and is not read again.
BarrierPass(p) ==
    /\ pc[p] = "barrier"
    /\ BarrierReleased(p)
    /\ val_loss' = [val_loss EXCEPT ![p] = NoLoss]
    /\ AfterStep(p, "barrier", is_accumulating[p], step_count[p])
    /\ UNCHANGED <<cfgVars, setupVars, exc, training, lr, max_seq_length,
                   longest_seq_ix, batch, k, evals, step_count,
                   is_accumulating, opt_steps, grad_accum, collVars, saveVars,
                   losses, prev_loss>>

\* The periodic checkpoint, which ends the iteration.
SavePeriodic(p) ==
    /\ pc[p] = "save"
    /\ files' = save_lora_checkpoint(p, IterCkptName(iter_num[p]), files)
    /\ save_calls' = [save_calls EXCEPT ![p] = @ + 1]
    /\ iter_num' = [iter_num EXCEPT ![p] = iter_num[p] + 1]
    /\ pc' = [pc EXCEPT ![p] = "loop"]
    /\ UNCHANGED <<cfgVars, setupVars, exc, training, lr, max_seq_length,
                   longest_seq_ix, batch, valVars, step_count, is_accumulating,
                   opt_steps, grad_accum, collVars, lossVars>>

\* range(max_iters) is exhausted: train returns to main, which prints the
\* training time.
TrainReturn(p) ==
    /\ pc[p] = "loop"
    /\ RangeExhausted(iter_num[p], hp.max_iters)
    /\ pc' = [pc EXCEPT ![p] = "final_save"]
    /\ UNCHANGED <<cfgVars, setupVars, exc, training, lr, max_seq_length,
                   longest_seq_ix, batch, valVars, loopVars, collVars, saveVars,
                   lossVars>>

\* main: the final checkpoint.
SaveFinal(p) ==
    /\ pc[p] = "final_save"
    /\ files' = save_lora_checkpoint(p, FinalCkptName, files)
    /\ save_calls' = [save_calls EXCEPT ![p] = @ + 1]
    /\ pc' = [pc EXCEPT ![p] = "done"]
    /\ UNCHANGED <<cfgVars, setupVars, exc, training, lr, max_seq_length,
                   longest_seq_ix, batch, valVars, loopVars, collVars, lossVars>>

\* The positions at which the next thing a process does is a call of a
\* collaborator that can raise: loading (main), the tokenizer (train), the
\* forward pass or generate (validate), the FLOPs measurement, the forward
\* pass of an iteration (loop), the backward pass or the optimizer (backward),
\* fabric.save.
Fallible ==
    {"main", "train", "val_iter", "flops", "loop", "backward", "save",
     "final_save"}

\* A collaborator call raises; nothing catches it and the process ends.
Raise(p) ==
    /\ pc[p] \in Fallible
    /\ pc[p] = "loop" => ~RangeExhausted(iter_num[p], hp.max_iters)
    /\ pc' = [pc EXCEPT ![p] = "raised"]
    /\ exc' = [exc EXCEPT ![p] = CollaboratorError]
    /\ UNCHANGED <<cfgVars, setupVars, training, lr, max_seq_length,
                   longest_seq_ix, batch, valVars, loopVars, collVars, saveVars,
                   lossVars>>

Next ==
    \/ Setup
    \/ \E p \in Ranks : MainInit(p)
    \/ \E p \in Ranks : TrainInit(p)
    \/ \E p \in Ranks : ValEnter(p)
    \/ \E p \in Ranks : ValIter(p)
    \/ \E p \in Ranks : ValFinish(p)
    \/ \E p \in Ranks : MeasureFlops(p)
    \/ \E p \in Ranks : IterForward(p)
    \/ \E p \in Ranks : IterStep(p)
    \/ \E p \in Ranks : BarrierPass(p)
    \/ \E p \in Ranks : SavePeriodic(p)
    \/ \E p \in Ranks : TrainReturn(p)
    \/ \E p \in Ranks : SaveFinal(p)
    \/ \E p \in Ranks : Raise(p)

Spec == Init /\ [][Next]_vars

\* Runs of several processes, each of which keeps running while it can
\* (every process is an operating-system process of its own, started by
\* fabric.launch): whatever a process can do next, other than fail, it
\* eventually does. Nothing obliges a collaborator to fail.
AllRanks == 0..(MaxDevices - 1)

Proceed(p) ==
    /\ p \in Ranks
    /\ \/ MainInit(p)
       \/ TrainInit(p)
       \/ ValEnter(p)
       \/ ValIter(p)
       \/ ValFinish(p)
       \/ MeasureFlops(p)
       \/ IterForward(p)
       \/ IterStep(p)
       \/ BarrierPass(p)
       \/ SavePeriodic(p)
       \/ TrainReturn(p)
       \/ SaveFinal(p)

DistInit == DistInputs /\ Unstarted

FairSpec ==
    /\ DistInit
    /\ [][Next]_vars
    /\ WF_vars(Setup)
    /\ \A p \in AllRanks : WF_vars(Proceed(p))

\* --------------------------------------------------- validate, called twice
\* A caller that runs validate again once it has returned, with no training
\* step in between, and keeps the first result.
ValidateData == { MkData(<<a, b>>) : a, b \in 1..MaxLen }

\* A process about to call validate for the first time, as train does for its
\* sanity check: launched, the optimizer built, max_seq_length set.
ValidateInit ==
    /\ \E mbs \in 1..MaxMicroBatch, ev \in 1..MaxEvalIters :
          hp = [BaseHp EXCEPT !.batch_size = mbs, !.micro_batch_size = mbs,
                              !.eval_iters = ev]
    /\ precision = None
    /\ quantize = None
    /\ train_data = OneExample
    /\ val_data \in ValidateData
    /\ LET o == SetupOutcome(precision, quantize, hp.devices)
           r == get_longest_seq_length(train_data)
       IN  /\ status = "launched"
           /\ plugins = o.plugins
           /\ strategy = o.strategy
           /\ max_seq_length = [p \in Ranks |-> r.longest_seq_length]
           /\ longest_seq_ix = [p \in Ranks |-> r.longest_seq_ix]
    /\ pc = [p \in Ranks |-> "val_enter"]
    /\ ret = [p \in Ranks |-> "sanity"]
    /\ exc = [p \in Ranks |-> "none"]
    /\ training = [p \in Ranks |-> TRUE]
    /\ lr = [p \in Ranks |-> learning_rate]
    /\ iter_num = [p \in Ranks |-> 0]
    /\ step_count = [p \in Ranks |-> 0]
    /\ is_accumulating = [p \in Ranks |-> FALSE]
    /\ batch = [p \in Ranks |-> NoBatch]
    /\ k = [p \in Ranks |-> 0]
    /\ arrived = [p \in Ranks |-> 0]
    /\ syncs = [p \in Ranks |-> 0]
    /\ opt_steps = [p \in Ranks |-> 0]
    /\ save_calls = [p \in Ranks |-> 0]
    /\ files = <<>>
    /\ evals = [p \in Ranks |-> 0]
    /\ grad_accum = [p \in Ranks |-> 0]
    /\ losses = [p \in Ranks |-> <<>>]
    /\ val_loss = [p \in Ranks |-> NoLoss]
    /\ prev_loss = [p \in Ranks |-> NoLoss]

\* validate has returned for the first time: call it again.
ValidateAgain(p) ==
    /\ pc[p] = "flops"
    /\ prev_loss[p] = NoLoss
    /\ prev_loss' = [prev_loss EXCEPT ![p] = val_loss[p]]
    /\ pc' = [pc EXCEPT ![p] = "val_enter"]
    /\ UNCHANGED <<cfgVars, setupVars, exc, training, lr, max_seq_length,
                   longest_seq_ix, batch, valVars, loopVars, collVars, saveVars,
                   losses, val_loss>>

ValidateNext ==
    \/ \E p \in Ranks : ValEnter(p)
    \/ \E p \in Ranks : ValIter(p)
    \/ \E p \in Ranks : ValFinish(p)
    \/ \E p \in Ranks : ValidateAgain(p)

ValidateSpec == ValidateInit /\ [][ValidateNext]_vars

\* ------------------------------------------------------------------ claims
GAI == gradient_accumulation_iters(hp)

\* The positions of an iteration after its optimizer step.
PostStep(p) ==
    \/ pc[p] \in {"barrier", "save"}
    \/ pc[p] \in {"val_enter", "val_iter"} /\ ret[p] = "periodic"

\* The data a batch was drawn from.
SourceData(b) == IF b.src = "train" THEN train_data ELSE val_data

\* C1 (state part): step_count counts the optimizer steps and equals
\* floor(N / gradient_accumulation_iters) after N completed iterations; inside
\* an iteration that has stepped, the iteration is a SYNCING one and
\* step_count already counts it.
C1_StepCount ==
    \A p \in Ranks :
        /\ opt_steps[p] = step_count[p]
        /\ pc[p] \in {"loop", "backward", "final_save", "done"}
              => step_count[p] = iter_num[p] \div GAI
        /\ PostStep(p)
              => /\ (iter_num[p] + 1) % GAI = 0
                 /\ step_count[p] = (iter_num[p] + 1) \div GAI

\* C1 (step part): the iteration of index i steps the optimizer, once, and
\* adds exactly 1 to step_count if and only if (i + 1) mod
\* gradient_accumulation_iters = 0; nothing else steps it.
C1_StepIff ==
    \A p \in Ranks :
        /\ opt_steps'[p] - opt_steps[p] \in {0, 1}
        /\ step_count'[p] - step_count[p] = opt_steps'[p] - opt_steps[p]
        /\ opt_steps'[p] # opt_steps[p] => pc[p] = "backward"
        /\ pc[p] = "backward" /\ pc'[p] \notin {"backward", "raised"}
              => (opt_steps'[p] = opt_steps[p] + 1
                    <=> (iter_num[p] + 1) % GAI = 0)

\* C1: the optimizer is stepped (step_count + 1) on iteration i iff
\* (i+1) mod gradient_accumulation_iters = 0, so that after N completed
\* iterations step_count = floor(N / gradient_accumulation_iters).
C1_Accumulation == []C1_StepCount /\ [][C1_StepIff]_vars

\* Width 32, 64 iterations completed: step_count is 2.
C1_Witness ==
    \E p \in Ranks :
        /\ GAI = 32
        /\ pc[p] = "done"
        /\ iter_num[p] = 64
        /\ step_count[p] = 2

\* C2 (state part): during the forward pass of an iteration the learning rate
\* is learning_rate * min(step_count, warmup_steps) / warmup_steps: the linear
\* ramp up to warmup_steps, learning_rate at warmup_steps and ever after.
C2_Rate ==
    \A p \in Ranks :
        pc[p] = "backward" =>
            LET m == IF step_count[p] <= hp.warmup_steps
                     THEN step_count[p] ELSE hp.warmup_steps
            IN  /\ lr[p].den > 0
                /\ lr[p].num * learning_rate.den * hp.warmup_steps
                      = learning_rate.num * m * lr[p].den
                /\ step_count[p] >= hp.warmup_steps
                      => RatEq(lr[p], learning_rate)

\* C2 (step part): from one forward pass to the next the learning rate never
\* decreases.
C2_Monotone ==
    \A p \in Ranks :
        pc[p] = "loop" /\ pc'[p] = "backward" /\ iter_num[p] > 0
            => RatLeq(lr[p], lr'[p])

\* C2: the learning rate at each forward pass is non-decreasing in
\* step_count, is learning_rate * step_count / warmup_steps up to
\* warmup_steps, learning_rate at warmup_steps and stays there.
C2_Warmup == []C2_Rate /\ [][C2_Monotone]_vars

\* A forward pass after the warmup, at the base rate, and one inside it.
C2_Witness ==
    \E p \in Ranks :
        /\ pc[p] = "backward"
        /\ hp.warmup_steps = 2
        /\ step_count[p] = 3
        /\ RatEq(lr[p], learning_rate)

\* C3: once validate is left, by return or by an exception raised inside it,
\* the model is in training mode.
C3_TrainingModeRestored ==
    \A p \in Ranks : pc[p] # "val_iter" => training[p]

C5_IncompatiblePrecision ==
    (status # "init" /\ quantize # None)
        => /\ precision \in MixedPrecisions
                 => /\ status = "ValueError"
                    /\ \A p \in Ranks : pc[p] = "unlaunched" /\ batch[p] = NoBatch
           /\ hp.devices = 1 /\ precision \notin MixedPrecisions
                 => status # "ValueError"

\* The incompatible-precision error on more than one device.
C5_Witness ==
    /\ status = "ValueError"
    /\ hp.devices > 1
    /\ quantize # None
    /\ precision \in MixedPrecisions

\* C6: input and target of a batch have micro_batch_size rows of max_len
\* columns, max_len the longest example of the draw; row j is example j's ids
\* followed by 0s (input), example j's labels followed by -1s (target).
C6_BatchShape ==
    \A p \in Ranks :
        batch[p].src # "none" =>
            LET b == batch[p]
                data == SourceData(b)
                n == hp.micro_batch_size
                width == Max({ Len(data[b.ix[j] + 1].input_ids) : j \in 1..n })
            IN  /\ Len(b.ix) = n /\ Len(b.x) = n /\ Len(b.y) = n
                /\ \A j \in 1..n :
                      LET e == data[b.ix[j] + 1]
                          m == Len(e.input_ids)
                      IN  /\ Len(b.x[j]) = width /\ Len(b.y[j]) = width
                          /\ SubSeq(b.x[j], 1, m) = e.input_ids
                          /\ SubSeq(b.y[j], 1, m) = e.labels
                          /\ \A c \in (m + 1)..width :
                                b.x[j][c] = 0 /\ b.y[j][c] = -1

\* A batch with a padded row, narrower than the longest example of the
\* dataset.
C6_Witness ==
    \E p \in Ranks :
        /\ batch[p].src # "none"
        /\ \E j \in 1..Len(batch[p].ix) :
              Len(SourceData(batch[p])[batch[p].ix[j] + 1].input_ids)
                  < Len(batch[p].x[j])
        /\ \E i \in 1..Len(SourceData(batch[p])) :
              Len(SourceData(batch[p])[i].input_ids) > Len(batch[p].x[1])

\* C7: a get_batch call is given the override exactly on iteration 0 of
\* train; with it, row 0 of the batch is the example at the override (the
\* longest of the training set); every index of a draw is in 0..len(data)-1.
C7_FirstDraw ==
    \A p \in Ranks :
        batch[p].src # "none" =>
            LET b == batch[p]
                data == SourceData(b)
            IN  /\ b.override # NoneIx <=> (b.src = "train" /\ b.iter = 0)
                /\ \A j \in 1..Len(b.ix) : b.ix[j] \in 0..(Len(data) - 1)
                /\ b.override # NoneIx =>
                      LET e == data[b.override + 1]
                      IN  /\ b.override = longest_seq_ix[p]
                          /\ b.ix[1] = b.override
                          /\ SubSeq(b.x[1], 1, Len(e.input_ids)) = e.input_ids
                          /\ Len(b.x[1]) = Len(e.input_ids)
                          /\ Len(b.x[1]) = max_seq_length[p]

\* Lengths [5, 5, 5, 9], micro_batch_size 3, override 3: the length-9 example
\* is row 0 and the batch is 9 wide, whatever else is drawn.
C7_Witness ==
    \E p \in Ranks :
        /\ train_data = MkData(<<5, 5, 5, 9>>)
        /\ hp.micro_batch_size = 3
        /\ batch[p].override = 3
        /\ batch[p].ix = <<3, 0, 2>>
        /\ Len(batch[p].x[1]) = 9

\* C8: every key of every checkpoint written satisfies lora_filter; no
\* base-model key is in any of them.
C8_AdapterOnly ==
    \A i \in 1..Len(files) :
        /\ \A key \in files[i].keys : lora_filter(key)
        /\ files[i].keys \cap BaseKeys = {}

\* A periodic and the final checkpoint written, each with adapter keys.
C8_Witness ==
    /\ Len(files) >= 2
    /\ files[1].path = IterCkptName(0)
    /\ files[Len(files)].path = FinalCkptName
    /\ \A i \in 1..Len(files) : files[i].keys # {}

\* C9: every checkpoint write is made by rank 0, one per save call of rank 0
\* and no path twice; the save calls of the other processes write nothing, so
\* that once all processes are done each checkpoint event has one write.
C9_SingleWriter ==
    /\ \A i \in 1..Len(files) : files[i].rank = 0
    /\ \A i, j \in 1..Len(files) : files[i].path = files[j].path => i = j
    /\ Len(files) = save_calls[0]
    /\ (\A p \in Ranks : pc[p] = "done")
          => \A p \in Ranks : save_calls[p] = Len(files)

\* Several processes done, each having saved a periodic and the final
\* checkpoint; two files written.
C9_Witness ==
    /\ hp.devices > 1
    /\ \A p \in Ranks : pc[p] = "done" /\ save_calls[p] = 2
    /\ Len(files) = 2

FinalWrites == { i \in 1..Len(files) : files[i].path = FinalCkptName }

NoFailure == status \in {"init", "launched"} /\ \A p \in Ranks : pc[p] # "raised"

\* C10 (state part): without a failure a process that is not done can take a
\* step (every step moves a process forward, so the run ends); the loop is
\* left at iteration index max_iters; a finished rank 0 has written exactly
\* one final checkpoint, the last write of all, and before that none.
C10_Final ==
    /\ NoFailure => (\A p \in Ranks : pc[p] = "done") \/ ENABLED Next
    /\ \A p \in Ranks :
          /\ iter_num[p] <= hp.max_iters
          /\ pc[p] \in {"final_save", "done"} => iter_num[p] = hp.max_iters
    /\ pc[0] = "done"
          => /\ Cardinality(FinalWrites) = 1
             /\ files[Len(files)].path = FinalCkptName
    /\ pc[0] # "done" => FinalWrites = {}

\* C10 (step part): the iteration index only ever grows, by 1.
C10_Index ==
    \A p \in Ranks : iter_num'[p] - iter_num[p] \in {0, 1}

\* C10: without failures the loop ends after exactly max_iters iterations,
\* the index growing by 1 and never reset, and then one final checkpoint is
\* written, after every periodic one, whether or not the last iteration wrote
\* a periodic one.
C10_Termination == []C10_Final /\ [][C10_Index]_vars

\* A finished run whose last iteration wrote a periodic checkpoint, followed
\* by the final one.
C10_Witness ==
    /\ pc[0] = "done"
    /\ hp.max_iters = 2
    /\ Len(files) >= 2
    /\ files[Len(files) - 1].path = IterCkptName(hp.max_iters - 1)
    /\ files[Len(files)].path = FinalCkptName

\* ------------------------------------------------------------------- C11
PeriodicWrites == { i \in 1..Len(files) : files[i].path # FinalCkptName }

\* Rank 0 is in an iteration whose checkpoint is due and not yet written.
SavePending ==
    PostStep(0) /\ SaveDue(is_accumulating[0], step_count[0], hp.save_interval)

\* The paths as the specification words them: without the ".pth" suffix.
StatedIterName(n) ==
    <<"i", "t", "e", "r", "-">> \o Format06d(n) \o <<"-", "c", "k", "p", "t">>

StatedFinalName ==
    <<"l", "i", "t", "_", "m", "o", "d", "e", "l", "_", "l", "o", "r", "a", "_",
      "f", "i", "n", "e", "t", "u", "n", "e", "d">>

\* C11 (state part): rank 0 has written one periodic checkpoint for each
\* multiple of save_interval its step_count has reached (the one of the
\* current iteration is written last in the iteration), and the i-th of them
\* is named after the SYNCING iteration that brought step_count to
\* i * save_interval.
C11_Written ==
    /\ \A i \in PeriodicWrites :
          /\ i <= Cardinality(PeriodicWrites)
          /\ files[i].path = IterCkptName(i * hp.save_interval * GAI - 1)
    /\ pc[0] # "raised"
          => Cardinality(PeriodicWrites) =
                (step_count[0] \div hp.save_interval)
                    - (IF SavePending THEN 1 ELSE 0)
    /\ pc[0] = "save"
          => ~is_accumulating[0] /\ step_count[0] % hp.save_interval = 0

\* C11 (step part): a file is written only by the periodic save, under the
\* name of the current iteration, and by the final save.
C11_Write ==
    files' # files
       => /\ Len(files') = Len(files) + 1
          /\ pc[0] \in {"save", "final_save"}
          /\ pc[0] = "save"
                => files'[Len(files')].path = IterCkptName(iter_num[0])
          /\ pc[0] = "final_save"
                => files'[Len(files')].path = FinalCkptName

\* C11 as stated: the cadence, with the files named "iter-NNNNNN-ckpt" and
\* "lit_model_lora_finetuned".
C11_StatedPaths ==
    /\ C11_Written
    /\ \A i \in 1..Len(files) :
          files[i].path \in
              {StatedIterName(n) : n \in 0..hp.max_iters} \cup {StatedFinalName}

\* C11 (amended): a periodic checkpoint is written exactly on the SYNCING
\* iterations whose step_count after the increment is a multiple of
\* save_interval, once each and never on an ACCUMULATING iteration, to
\* iter-{iter_num:06d}-ckpt.pth; the final checkpoint is written to
\* lit_model_lora_finetuned.pth.
C11_PeriodicCheckpoint == []C11_Written /\ [][C11_Write]_vars

\* A finished run of 4 iterations accumulating over 2 with save_interval 2:
\* one periodic checkpoint, of iteration 3, and the final one.
C11_Witness ==
    /\ pc[0] = "done"
    /\ GAI = 2 /\ hp.save_interval = 2 /\ hp.max_iters = 4
    /\ Len(files) = 2
    /\ files[1].path =
          <<"i", "t", "e", "r", "-", "0", "0", "0", "0", "0", "3", "-",
            "c", "k", "p", "t", ".", "p", "t", "h">>
    /\ files[2].path =
          <<"l", "i", "t", "_", "m", "o", "d", "e", "l", "_", "l", "o", "r",
            "a", "_", "f", "i", "n", "e", "t", "u", "n", "e", "d", ".", "p",
            "t", "h">>

\* ------------------------------------------------------------------- C12
\* Process p is in a call of validate made by the loop.
InPeriodicVal(p) == pc[p] \in {"val_enter", "val_iter"} /\ ret[p] = "periodic"

\* C12 (state part): a process has called validate from the loop once for
\* each positive multiple of eval_interval its step_count has reached (the
\* call of the current iteration follows the increment), it is in such a
\* call only on a SYNCING iteration that produced a multiple, and it has
\* entered the barrier once for each call that returned.
C12_Evaluated ==
    \A p \in Ranks :
       pc[p] # "raised"
          => /\ evals[p] = (step_count[p] \div hp.eval_interval)
                              - (IF InPeriodicVal(p) /\ pc[p] = "val_enter"
                                 THEN 1 ELSE 0)
             /\ InPeriodicVal(p)
                   => /\ ~is_accumulating[p]
                      /\ step_count[p] > 0
                      /\ step_count[p] % hp.eval_interval = 0
             /\ arrived[p] = evals[p]
                              - (IF InPeriodicVal(p) /\ pc[p] = "val_iter"
                                 THEN 1 ELSE 0)

\* C12 (step part): validate returns to the loop into fabric.barrier().
C12_ThenBarrier ==
    \A p \in Ranks :
       (InPeriodicVal(p) /\ pc'[p] \notin {"val_enter", "val_iter", "raised"})
          => /\ pc'[p] = "barrier"
             /\ arrived'[p] = arrived[p] + 1

\* C12: inside the loop validate runs exactly once for each positive
\* step_count that is a multiple of eval_interval, on the SYNCING iteration
\* that produced it and never on an ACCUMULATING one, and each such call is
\* followed at once by a barrier call.
C12_PeriodicEvaluation == []C12_Evaluated /\ [][C12_ThenBarrier]_vars

\* The evaluation of step 2 (eval_interval 2, accumulating over 2) has
\* returned on iteration 3 and the process is in the barrier; it was the
\* first evaluation.
C12_Witness ==
    \E p \in Ranks :
       /\ pc[p] = "barrier"
       /\ GAI = 2 /\ hp.eval_interval = 2
       /\ iter_num[p] = 3 /\ step_count[p] = 2
       /\ evals[p] = 1 /\ arrived[p] = 1

\* ------------------------------------------------------------------- C13
\* The barriers process p has returned from.
Passed(p) == arrived[p] - (IF pc[p] = "barrier" THEN 1 ELSE 0)

WaitsAtBarrier(p) == p \in Ranks /\ pc[p] = "barrier"

SomeFailed == \E q \in Ranks : pc[q] = "raised"

\* C13 (safety): a process that has gone on from its n-th evaluation (it has
\* returned from the n-th barrier, on its way to the next iteration) finds
\* that every process has finished its n-th evaluation.
C13_NoneAhead ==
    \A p, q \in Ranks : Passed(p) <= arrived[q]

CalledTwice(p) == pc[p] = "flops" /\ prev_loss[p] # NoLoss

\* How many of the batches behind a mean loss had inputs x and targets y.
BatchCount(loss, x, y) ==
    Cardinality({ c \in (DOMAIN loss.terms) \X (1..loss.n) :
                    c[1].x = x /\ c[1].y = y /\ c[2] <= loss.terms[c[1]] })

BatchesOf(loss) == { <<t.x, t.y>> : t \in DOMAIN loss.terms }

\* The two calls evaluated the same batches, each as often.
SameBatches(p) ==
    /\ BatchesOf(val_loss[p]) = BatchesOf(prev_loss[p])
    /\ \A b \in BatchesOf(val_loss[p]) :
          BatchCount(val_loss[p], b[1], b[2])
             = BatchCount(prev_loss[p], b[1], b[2])

\* C14 as stated: two calls of validate on the same validation set, with no
\* training in between, return the same mean loss.
C14_SameLoss ==
    \A p \in Ranks : CalledTwice(p) => val_loss[p] = prev_loss[p]

\* C14 (amended): two calls of validate with no training in between return
\* the same mean loss if they draw the same batches; validate draws its
\* batches at random on every call.
C14_SameLossForSameBatches ==
    \A p \in Ranks :
       (CalledTwice(p) /\ SameBatches(p)) => val_loss[p] = prev_loss[p]

\* Two calls on a validation set of two different examples that happened to
\* draw the same batch.
C14_Witness ==
    \E p \in Ranks :
       /\ CalledTwice(p)
       /\ val_data = MkData(<<1, 2>>)
       /\ val_loss[p].n >= 1
       /\ SameBatches(p)
       /\ val_loss[p] = prev_loss[p]

\* ------------------------------------------------------------------- C15
\* C15: no batch is ever drawn from an empty example set, and a process that
\* failed for a reason of its own (not a collaborator's: the only such
\* failures are the draws from an empty set) failed with EmptyDatasetError.
C15_EmptyDatasetError ==
    \A p \in Ranks :
       /\ Len(train_data) = 0 => batch[p].src # "train"
       /\ Len(val_data) = 0 => batch[p].src # "val"
       /\ (pc[p] = "raised" /\ exc[p] # CollaboratorError)
             => /\ Len(train_data) = 0 \/ Len(val_data) = 0
                /\ exc[p] = "EmptyDatasetError"

\* ------------------------------------------------------------------- C16
\* C16 (state part): the synchronised backward passes a process has entered
\* are as many as its optimizer steps, plus the one of a SYNCING iteration
\* whose step is still to come (or was prevented by a failure).
C16_SyncsMatchSteps ==
    \A p \in Ranks :
       /\ pc[p] = "backward"
             => syncs[p] = opt_steps[p] + (IF is_accumulating[p] THEN 0 ELSE 1)
       /\ pc[p] \notin {"backward", "raised"} => syncs[p] = opt_steps[p]
       /\ pc[p] = "raised" => syncs[p] - opt_steps[p] \in {0, 1}

\* C16 (step part): the backward pass of an iteration is synchronised unless
\* the iteration is ACCUMULATING, and an optimizer step is taken only in an
\* iteration that is not, after its synchronised backward pass.
C16_SyncIffStep ==
    \A p \in Ranks :
       /\ (pc[p] = "loop" /\ pc'[p] = "backward")
             => (syncs'[p] = syncs[p]
                    <=> IsAccumulating(iter_num[p], GAI))
       /\ opt_steps'[p] # opt_steps[p]
             => /\ pc[p] = "backward"
                /\ ~IsAccumulating(iter_num[p], GAI)
                /\ syncs[p] = opt_steps[p] + 1
                /\ opt_steps'[p] = syncs[p]

\* C16: gradient synchronisation is suppressed in the backward pass if and
\* only if the iteration is ACCUMULATING, so that a synchronisation happens
\* on exactly the iterations on which the optimizer steps and every step
\* follows a synchronised backward pass of its iteration.
C16_SyncOnSteppingIterations == []C16_SyncsMatchSteps /\ [][C16_SyncIffStep]_vars

\* Two processes accumulating over 2: after iterations 0 and 1 each has made
\* one synchronised backward pass and one optimizer step.
C16_Witness ==
    /\ hp.devices = 2 /\ GAI = 2
    /\ \A p \in Ranks :
          /\ pc[p] = "loop" /\ iter_num[p] = 2
          /\ syncs[p] = 1 /\ opt_steps[p] = 1

\* ------------------------------------------------------------------- C17
\* Process p takes the first half of an ACCUMULATING iteration (up to the
\* backward pass), or the second (from the backward pass on).
AccumulatingForward(p) ==
    pc[p] = "loop" /\ pc'[p] = "backward" /\ IsAccumulating(iter_num[p], GAI)

AccumulatingBackward(p) ==
    pc[p] = "backward" /\ pc'[p] = "loop" /\ IsAccumulating(iter_num[p], GAI)

\* The optimizer is not stepped, the gradients are not zeroed (the
\* micro-batch's gradient is added to them) and step_count stays.
NoOptimizerStep(p) ==
    /\ opt_steps'[p] = opt_steps[p]
    /\ step_count'[p] = step_count[p]
    /\ grad_accum'[p] >= grad_accum[p]

\* C17 as stated: an ACCUMULATING iteration, iteration 0 included, changes
\* nothing of the optimizer: no step, no zeroing of the gradients, step_count
\* as it was and the learning rate of the parameter groups as it was.
C17_OptimizerUntouched ==
    [][\A p \in Ranks :
          (AccumulatingForward(p) \/ AccumulatingBackward(p))
             => NoOptimizerStep(p) /\ lr'[p] = lr[p]]_vars

\* The learning rate is rewritten at the top of an iteration while
\* step_count <= warmup_steps, from step_count: the value changes in
\* iteration 0 (the optimizer was built with learning_rate) and in the
\* iteration after an optimizer step.
RateRewritten(p) ==
    /\ step_count[p] <= hp.warmup_steps
    /\ iter_num[p] = 0 \/ ~IsAccumulating(iter_num[p] - 1, GAI)

\* C17 (amended): an ACCUMULATING iteration does not step the optimizer,
\* does not zero the gradients and leaves step_count as it was; it changes
\* the learning rate of the parameter groups, at its top, exactly when it is
\* iteration 0 or follows a SYNCING iteration while step_count <=
\* warmup_steps, and then to learning_rate * step_count / warmup_steps.
C17_OnlyRateChanges ==
    [][\A p \in Ranks :
          /\ AccumulatingForward(p)
                => /\ NoOptimizerStep(p)
                   /\ grad_accum'[p] = grad_accum[p]
                   /\ ~RatEq(lr'[p], lr[p]) <=> RateRewritten(p)
                   /\ RateRewritten(p)
                         => lr'[p] = WarmupLr(step_count[p], hp.warmup_steps)
          /\ AccumulatingBackward(p)
                => /\ NoOptimizerStep(p)
                   /\ grad_accum'[p] = grad_accum[p] + 1
                   /\ lr'[p] = lr[p]]_vars

\* Accumulating over 2 with 2 warmup steps: iteration 2, which follows the
\* first optimizer step, is ACCUMULATING and has raised the rate from 0 to
\* learning_rate / 2.
C17_Witness ==
    \E p \in Ranks :
       /\ pc[p] = "backward" /\ is_accumulating[p]
       /\ GAI = 2 /\ hp.warmup_steps = 2
       /\ iter_num[p] = 2 /\ step_count[p] = 1
       /\ RatEq(lr[p], Rat(learning_rate.num, 2 * learning_rate.den))

\* ------------------------------------------------------------------- C18
\* The padded length of the rows of a batch.
Width(b) == Len(b.x[1])

\* C18: the batch of training iteration 0 is as wide as the longest training
\* example, which is model.max_seq_length, and no batch fed to the model,
\* from the training set or from the validation set, is wider.
C18_NoWiderBatch ==
    \A p \in Ranks :
       batch[p].src # "none"
          => /\ max_seq_length[p]
                   = get_longest_seq_length(train_data).longest_seq_length
             /\ (batch[p].src = "train" /\ batch[p].iter = 0)
                   => Width(batch[p]) = max_seq_length[p]
             /\ Width(batch[p]) <= max_seq_length[p]

\* ------------------------------------------------------------------- C19
\* learning_rate * min(n, warmup_steps) / warmup_steps
RateAfter(n) ==
    Rat(learning_rate.num * (IF n < hp.warmup_steps THEN n ELSE hp.warmup_steps),
        learning_rate.den * hp.warmup_steps)

\* C19 (step part): the optimizer step that follows k - 1 earlier ones is
\* taken with the parameter groups at learning_rate * min(k - 1,
\* warmup_steps) / warmup_steps: at 0 for the first step, below learning_rate
\* up to step warmup_steps, at learning_rate from step warmup_steps + 1 on.
C19_RateAtStep ==
    \A p \in Ranks :
       opt_steps'[p] # opt_steps[p]
          => /\ opt_steps'[p] = opt_steps[p] + 1
             /\ step_count[p] = opt_steps[p]
             /\ RatEq(lr[p], RateAfter(opt_steps[p]))
             /\ lr'[p] = lr[p]
             /\ opt_steps[p] = 0 => lr[p].num = 0
             /\ RatEq(lr[p], learning_rate) <=> opt_steps[p] >= hp.warmup_steps

\* C19: the k-th optimizer step of the run is applied with learning rate
\* learning_rate * min(k - 1, warmup_steps) / warmup_steps; the first step
\* uses rate 0 and the full rate is first used by step warmup_steps + 1.
C19_StepRate == [][C19_RateAtStep]_vars

\* With 2 warmup steps the third optimizer step has just been taken, at the
\* full learning_rate.
C19_Witness ==
    \E p \in Ranks :
       /\ hp.warmup_steps = 2 /\ GAI = 1
       /\ opt_steps[p] = 3 /\ iter_num[p] = 2
       /\ pc[p] # "raised"
       /\ RatEq(lr[p], learning_rate)

\* ------------------------------------------------------------------- C20
\* C20 (state part): the micro-batch gradients accumulated and not yet
\* applied are those of the iterations since the last SYNCING one; when the
\* loop has ended they are max_iters mod gradient_accumulation_iters, every
\* other micro-batch having gone into one of the optimizer steps, and none
\* if the last iteration was a SYNCING one.
C20_Trailing ==
    \A p \in Ranks :
       /\ pc[p] = "loop" => grad_accum[p] = iter_num[p] % GAI
       /\ pc[p] \in {"final_save", "done"}
             => /\ grad_accum[p] = hp.max_iters % GAI
                /\ grad_accum[p] + GAI * opt_steps[p] = hp.max_iters
                /\ (hp.max_iters > 0 /\ ~is_accumulating[p])
                      => grad_accum[p] = 0
       /\ hp = ConfiguredHp
             => /\ GAI = 32
                /\ pc[p] \in {"final_save", "done"}
                      => /\ grad_accum[p] = 0
                         /\ ~is_accumulating[p]
                         /\ opt_steps[p] = 375

\* C20 (step part): the gradients are zeroed by a SYNCING iteration and by
\* nothing else; an ACCUMULATING iteration adds one micro-batch.
C20_Accumulate ==
    \A p \in Ranks :
       grad_accum'[p] # grad_accum[p]
          => /\ pc[p] = "backward"
             /\ grad_accum'[p] =
                   IF IsAccumulating(iter_num[p], GAI)
                   THEN grad_accum[p] + 1 ELSE 0

\* C20: when the loop ends the trailing micro-batches whose gradients were
\* accumulated but never applied are max_iters mod
\* gradient_accumulation_iters; with max_iters 12000, batch_size 96 and
\* micro_batch_size 3 there are none, the last iteration being SYNCING.
C20_TrailingMicroBatches == []C20_Trailing /\ [][C20_Accumulate]_vars

\* A run that has ended with a gradient accumulated and never applied (3
\* iterations accumulating over 2), its final checkpoint written.
C20_Witness ==
    /\ hp.max_iters = 3 /\ GAI = 2
    /\ pc[0] = "done"
    /\ opt_steps[0] = 1
    /\ grad_accum[0] = 1
    /\ files[Len(files)].path = FinalCkptName
====
